---- MODULE Spec2Model ----
(***************************************************************************)
(* Team formation core of team_formation.py: identify_subteams,            *)
(* classify_subteams, merge_subteams_into_teams, the two project           *)
(* assigners and the tail of main, as one state machine.  Students and     *)
(* projects are numbered; a Python list is a sequence, a Python set is a   *)
(* set, a dict is a function (or, where its insertion order is read, a     *)
(* sequence of entries).  Python indices start at 0, the indices here at   *)
(* 1, so the key (size, idx) of the used-set is (size, idx + 1) here.      *)
(***************************************************************************)
EXTENDS Integers, Sequences, FiniteSets, TLC

\* ------------------------------------------------------------------ bounds
NumStudents == 7
NumProjects == 2
\* The students of a survey in which nobody requests anybody.
NumSingles == 11
\* The survey's "#n Choice" ranks run from 1 to 5.
MaxRank == 5
\* A team has 5 or 6 members.
MinTeamSize == 5
MaxTeamSize == 6

Students == 1..NumStudents
Projects == 1..NumProjects
\* A netID that a student typed but that is no row of the survey.
UnknownId == 0

VARIABLES
    subteam_prefs,        \* netID -> list of requested netIDs (RequestMap)
    rows,                 \* insertion order of the keys of subteam_prefs
    project_prefs,        \* netID -> (project -> rank)        (PreferenceMap)
    hashSeed,             \* this process's iteration order of sets
    pc,                   \* position in main
    i,                    \* outer loop index of the running merge strategy
    complete_subteams,    \* identify_subteams: list of sets
    individuals,          \* identify_subteams: set
    complete_teams,       \* classify_subteams: list of team objects
    incomplete_subteams,  \* classify_subteams: size -> list of team objects
    formed_teams,         \* merge: list of merged teams
    used,                 \* merge: set of <<size, idx>>
    unmatched,            \* merge: list of team objects
    complete_assignments, \* assign_projects_to_complete_subteams
    merged_assignments,   \* assign_projects_to_merged_teams
    errors,               \* teams reported with "ERROR: ... no common project"
    status,               \* "running", "completed" or "aborted" (sys.exit(1))
    call,                 \* the last direct call of a pure function, with its result
    previous              \* what an earlier run of main on these inputs produced

vars == <<subteam_prefs, rows, project_prefs, hashSeed, pc, i, complete_subteams,
          individuals, complete_teams, incomplete_subteams, formed_teams, used,
          unmatched, complete_assignments, merged_assignments, errors, status,
          call, previous>>

inputs == <<subteam_prefs, rows, project_prefs, hashSeed>>

\* ------------------------------------------------------- lists and sets
Range(s) == {s[k] : k \in 1..Len(s)}

Min(a, b) == IF a <= b THEN a ELSE b

MinOf(S) == CHOOSE x \in S : \A y \in S : x <= y

MaxOf(S) == CHOOSE x \in S : \A y \in S : x >= y

RECURSIVE SortedAsc(_)
\* sorted(S) of a set of netIDs.
SortedAsc(S) ==
    IF S = {} THEN <<>> ELSE LET first == MinOf(S) IN <<first>> \o SortedAsc(S \ {first})

RECURSIVE SortedDesc(_)
SortedDesc(S) ==
    IF S = {} THEN <<>> ELSE LET first == MaxOf(S) IN <<first>> \o SortedDesc(S \ {first})

\* The order in which this process iterates over a set (list(S), for x in S).
\* CPython fixes it per process from the elements' hashes; the two seeds stand
\* for two processes that disagree on it.
IterOrder(S) == IF hashSeed = 0 THEN SortedAsc(S) ELSE SortedDesc(S)

RECURSIVE SumSeq(_)
SumSeq(s) == IF s = <<>> THEN 0 ELSE s[1] + SumSeq(Tail(s))

\* The least index in 1..n that satisfies P, 0 when there is none: a for loop
\* that breaks at its first hit.
FirstIdx(n, P(_)) ==
    IF \E j \in 1..n : P(j)
    THEN CHOOSE j \in 1..n : P(j) /\ \A k \in 1..(j - 1) : ~P(k)
    ELSE 0

\* ------------------------------------------------------- validate_subteam
RequestsOf(member) ==
    IF member \in DOMAIN subteam_prefs THEN subteam_prefs[member] ELSE <<>>

RECURSIVE ValidateLoop(_, _, _)
\* The for loop over members_set from position k of its iteration order on:
\* False at the first member whose requests are not exactly the others.
ValidateLoop(order, k, members_set) ==
    IF k > Len(order) THEN TRUE
    ELSE LET member == order[k]
             member_prefs == Range(RequestsOf(member))
             expected_prefs == members_set \ {member}
         IN  IF member_prefs # expected_prefs THEN FALSE
             ELSE ValidateLoop(order, k + 1, members_set)

\* Variant: a member's requests only have to contain the other members.
validate_subteam_superset(members) ==
    \A member \in members : (members \ {member}) \subseteq Range(RequestsOf(member))

\* Variant: a member without a row in the survey is not checked.
validate_subteam_known(members) ==
    \A member \in members \cap DOMAIN subteam_prefs :
        Range(RequestsOf(member)) = members \ {member}

validate_subteam(members) == ValidateLoop(IterOrder(members), 1, members)

\* ------------------------------------------------------ identify_subteams
RECURSIVE SortedByLen(_)
\* sorted(items, key=len of the request list, reverse=True): stable, so rows
\* with equal lengths keep their insertion order.  k runs from the longest
\* list down to 0.
SortedByLen(k) ==
    LET here == SelectSeq(rows, LAMBDA n : Len(subteam_prefs[n]) = k)
    IN  IF k = 0 THEN here ELSE here \o SortedByLen(k - 1)

sorted_people ==
    IF rows = <<>> THEN <<>>
    ELSE SortedByLen(MaxOf({Len(subteam_prefs[n]) : n \in Range(rows)}))

RECURSIVE IdentifyLoopNoEmptyCheck(_, _, _, _)
\* Variant: the loop without the 'if not prefs: continue' guard.
IdentifyLoopNoEmptyCheck(people, k, subs, assigned) ==
    IF k > Len(people) THEN [subs |-> subs, assigned |-> assigned]
    ELSE LET netid == people[k]
             potential_team == {netid} \cup Range(subteam_prefs[netid])
         IN  IF netid \notin assigned /\ validate_subteam(potential_team)
                /\ potential_team \cap assigned = {}
             THEN IdentifyLoopNoEmptyCheck(people, k + 1, Append(subs, potential_team),
                                           assigned \cup potential_team)
             ELSE IdentifyLoopNoEmptyCheck(people, k + 1, subs, assigned)

RECURSIVE IdentifyLoopGreedy(_, _, _, _)
\* Variant: a candidate none of whose members is assigned is committed
\* without validation.
IdentifyLoopGreedy(people, k, subs, assigned) ==
    IF k > Len(people) THEN [subs |-> subs, assigned |-> assigned]
    ELSE LET netid == people[k]
             prefs == subteam_prefs[netid]
             potential_team == {netid} \cup Range(prefs)
         IN  IF netid \in assigned \/ prefs = <<>>
             THEN IdentifyLoopGreedy(people, k + 1, subs, assigned)
             ELSE IF potential_team \cap assigned = {}
                  THEN IdentifyLoopGreedy(people, k + 1, Append(subs, potential_team),
                                          assigned \cup potential_team)
                  ELSE IdentifyLoopGreedy(people, k + 1, subs, assigned)

RECURSIVE IdentifyLoop(_, _, _, _)
\* The for loop of identify_subteams from position k on; the result is
\* [subs |-> complete_subteams, assigned |-> assigned].
IdentifyLoop(people, k, subs, assigned) ==
    IF k > Len(people) THEN [subs |-> subs, assigned |-> assigned]
    ELSE LET netid == people[k]
             prefs == subteam_prefs[netid]
             potential_team == {netid} \cup Range(prefs)
         IN  IF netid \in assigned \/ prefs = <<>>
             THEN IdentifyLoop(people, k + 1, subs, assigned)
             ELSE IF validate_subteam(potential_team)
                     /\ potential_team \cap assigned = {}
                  THEN IdentifyLoop(people, k + 1, Append(subs, potential_team),
                                    assigned \cup potential_team)
                  ELSE IdentifyLoop(people, k + 1, subs, assigned)

identify_subteams ==
    LET r == IdentifyLoop(sorted_people, 1, <<>>, {})
    IN  [complete_subteams |-> r.subs,
         individuals |-> Range(rows) \ r.assigned]

\* ------------------------------------------------------------ the inputs
RECURSIVE Partitions(_, _)
\* The ways to cut n students into blocks of at most m, largest block first.
Partitions(n, m) ==
    IF n = 0 THEN {<<>>}
    ELSE UNION {{<<k>> \o p : p \in Partitions(n - k, k)} : k \in 1..Min(n, m)}

RECURSIVE BlockStart(_, _)
\* The first student of block b: the blocks are laid out over 1..NumStudents
\* in the order of the shape.
BlockStart(shape, b) == IF b = 1 THEN 1 ELSE BlockStart(shape, b - 1) + shape[b - 1]

BlockOf(shape, s) ==
    LET b == CHOOSE c \in 1..Len(shape) :
                 BlockStart(shape, c) <= s /\ s < BlockStart(shape, c) + shape[c]
    IN  BlockStart(shape, b)..(BlockStart(shape, b) + shape[b] - 1)

\* The students of a shape: one per place in its blocks.
StudentsOf(shape) == 1..SumSeq(shape)

\* Every student requests exactly the others of the block: mutual requests.
MutualRequests(shape) ==
    [s \in StudentsOf(shape) |-> SortedAsc(BlockOf(shape, s) \ {s})]

\* One student's list differs from the mutual one: the last request is
\* missing ("drop"), an unknown netID is added ("unknown"), or a student
\* outside the block is added ("extra").
Defect(reqs, kind, d) ==
    LET mine == reqs[d]
        others == DOMAIN reqs \ ({d} \cup Range(mine))
    IN  CASE kind = "drop" /\ mine # <<>> ->
                 [reqs EXCEPT ![d] = SubSeq(mine, 1, Len(mine) - 1)]
          [] kind = "unknown" -> [reqs EXCEPT ![d] = Append(mine, UnknownId)]
          [] kind = "extra" /\ others # {} ->
                 [reqs EXCEPT ![d] = Append(mine, MinOf(others))]
          [] OTHER -> reqs

\* A student's preference map: w consecutive projects from f on (cyclically),
\* ranked 1, 2, ... in that order; w = 0 is a student with no preferences.
PrefWindow(f, w) ==
    [p \in {((f + k - 1) % NumProjects) + 1 : k \in 0..(w - 1)} |->
        ((p - f + NumProjects) % NumProjects) + 1]

\* A student lists nothing, one project, or every project (at most MaxRank).
PrefWidths == {0, 1, Min(NumProjects, MaxRank)}

PrefMenu == {PrefWindow(f, w) : f \in Projects, w \in PrefWidths}

\* The maps that start at the first project: every other map is one of these
\* with the projects renamed.
PrefBases == {PrefWindow(1, w) : w \in PrefWidths}

\* Everybody has the map base, except the students lo..hi, who have alt.
PrefsWith(students, base, alt, lo, hi) ==
    [s \in students |-> IF lo <= s /\ s <= hi THEN alt ELSE base]

Shapes == Partitions(NumStudents, NumStudents)

\* Two subteams that are complete teams from the start.
TwoTeams == <<MinTeamSize, MinTeamSize>>

RequestMaps ==
    {Defect(MutualRequests(shape), kind, d) :
        shape \in Shapes, kind \in {"none", "drop", "unknown", "extra"}, d \in Students}

\* The students who differ are one or two neighbours, or the first few.
PrefIntervals(students) ==
    {p \in students \X students : p[1] <= p[2] /\ (p[2] - p[1] <= 1 \/ p[1] = 1)}

PreferenceMaps(students) ==
    {PrefsWith(students, base, alt, p[1], p[2]) :
        base \in PrefBases, alt \in PrefMenu, p \in PrefIntervals(students)}

InitOutputs ==
    /\ pc = "identify"
    /\ i = 1
    /\ complete_subteams = <<>>
    /\ individuals = {}
    /\ complete_teams = <<>>
    /\ incomplete_subteams = [size \in 1..4 |-> <<>>]
    /\ formed_teams = <<>>
    /\ used = {}
    /\ unmatched = <<>>
    /\ complete_assignments = <<>>
    /\ merged_assignments = <<>>
    /\ errors = {}
    /\ status = "running"
    /\ call = [fn |-> "none"]
    /\ previous = [run |-> "none"]

\* The inputs of a run, the rows in survey order: mutual requests with one
\* defect and the same full preference list for everybody, or for everybody
\* but the last student, who has none; or mutual requests without a defect
\* and preferences that differ; or the same for two subteams of five.
InitInputs ==
    /\ hashSeed \in {0, 1}
    /\ \/ /\ subteam_prefs \in RequestMaps
          /\ project_prefs \in
                 {PrefsWith(Students, PrefWindow(1, NumProjects), <<>>, lo, NumStudents) :
                     lo \in {NumStudents, NumStudents + 1}}
       \/ /\ subteam_prefs \in {MutualRequests(shape) : shape \in Shapes}
          /\ project_prefs \in PreferenceMaps(Students)
       \/ /\ subteam_prefs = MutualRequests(TwoTeams)
          /\ project_prefs \in PreferenceMaps(StudentsOf(TwoTeams))
    /\ rows = SortedAsc(DOMAIN subteam_prefs)

Init ==
    /\ InitInputs
    /\ InitOutputs

\* ------------------------------------------------------------- the steps
Identify ==
    /\ pc = "identify"
    /\ LET result == identify_subteams
       IN  /\ complete_subteams' = result.complete_subteams
           /\ individuals' = result.individuals
    /\ pc' = "classify"
    /\ UNCHANGED <<inputs, call, previous, i, complete_teams, incomplete_subteams, formed_teams,
                   used, unmatched, complete_assignments, merged_assignments,
                   errors, status>>

\* ------------------------------------------- calculate_team_project_prefs
PrefsOf(netid) ==
    IF netid \in DOMAIN project_prefs THEN project_prefs[netid] ELSE <<>>

RECURSIVE CommonFrom(_, _, _)
\* common_projects after intersecting with team_list[k..].
CommonFrom(team_list, k, common) ==
    IF k > Len(team_list) THEN common
    ELSE CommonFrom(team_list, k + 1, common \cap DOMAIN PrefsOf(team_list[k]))

\* Variant: the projects of the first member, without the intersection.
common_projects_of_first(team_list) ==
    IF team_list = <<>> THEN {} ELSE DOMAIN PrefsOf(team_list[1])

common_projects(team_list) ==
    IF team_list = <<>> THEN {}
    ELSE CommonFrom(team_list, 2, DOMAIN PrefsOf(team_list[1]))

\* project_prefs[netid][project] in the loop over the common projects raises
\* KeyError for this team: a member has no entry, or no rank for the project.
KeyError(team_members) ==
    LET team_list == IterOrder(team_members)
    IN  \E project \in common_projects(team_list) : \E k \in 1..Len(team_list) :
            \/ team_list[k] \notin DOMAIN project_prefs
            \/ project \notin DOMAIN project_prefs[team_list[k]]

\* Variant: the score is the worst rank instead of the sum of the ranks.
ScoreEntryWorst(team_list, project) ==
    LET rankings == [k \in 1..Len(team_list) |-> project_prefs[team_list[k]][project]]
    IN  [project |-> project, aggregate_score |-> MaxOf(Range(rankings)),
         rankings |-> rankings]

\* One entry of project_scores, with its key.
ScoreEntry(team_list, project) ==
    LET rankings == [k \in 1..Len(team_list) |-> project_prefs[team_list[k]][project]]
    IN  [project |-> project, aggregate_score |-> SumSeq(rankings),
         rankings |-> rankings]

RECURSIVE InsertByScore(_, _)
\* Puts e behind the entries whose score is not greater: a stable sort keeps
\* equal scores in their insertion order.
InsertByScore(sorted, e) ==
    IF sorted = <<>> THEN <<e>>
    ELSE IF sorted[1].aggregate_score <= e.aggregate_score
         THEN <<sorted[1]>> \o InsertByScore(Tail(sorted), e)
         ELSE <<e>> \o sorted

\* Variant: the entries are returned in insertion order, unsorted.
SortByScoreKeepOrder(entries) == entries

RECURSIVE SortByScore(_)
\* dict(sorted(project_scores.items(), key=aggregate_score)).
SortByScore(entries) ==
    IF entries = <<>> THEN <<>>
    ELSE InsertByScore(SortByScore(SubSeq(entries, 1, Len(entries) - 1)),
                       entries[Len(entries)])

\* The returned dict, as the list of its entries in insertion order.
calculate_team_project_prefs(team_members) ==
    LET team_list == IterOrder(team_members)
        order == IterOrder(common_projects(team_list))
    IN  SortByScore([k \in 1..Len(order) |-> ScoreEntry(team_list, order[k])])

\* ------------------------------------------------------ classify_subteams
TeamObj(members) == [members |-> members, size |-> Cardinality(members)]

\* Variant: the lower end of a bucket's size range is not tested.
ClassifiedUpTo(subs, lo, hi) ==
    SelectSeq([k \in 1..Len(subs) |-> [members |-> subs[k], size |-> Cardinality(subs[k])]],
              LAMBDA t : t.size <= hi)

\* The team objects of the committed subteams whose size is in lo..hi, in
\* list order; a subteam of another size falls through both branches.
Classified(subs, lo, hi) ==
    SelectSeq([k \in 1..Len(subs) |-> TeamObj(subs[k])],
              LAMBDA t : lo <= t.size /\ t.size <= hi)

classify_subteams ==
    LET singles == IterOrder(individuals)
    IN  [complete_teams |-> Classified(complete_subteams, MinTeamSize, MaxTeamSize),
         incomplete_subteams |->
            [size \in 1..4 |->
                Classified(complete_subteams, size, size)
                \o (IF size = 1
                    THEN [k \in 1..Len(singles) |-> [members |-> {singles[k]}, size |-> 1]]
                    ELSE <<>>)]]

\* main's assertions on a list of teams: every team has 5 or 6 members.
SizesOK(teams) == \A k \in 1..Len(teams) : Cardinality(teams[k].members) \in {5, 6}

Classify ==
    /\ pc = "classify"
    /\ LET result == classify_subteams
       IN  /\ complete_teams' = result.complete_teams
           /\ incomplete_subteams' = result.incomplete_subteams
           /\ IF SizesOK(result.complete_teams)
              THEN pc' = "merge1" /\ status' = status
              ELSE pc' = "done" /\ status' = "aborted"
    /\ i' = 1
    /\ UNCHANGED <<inputs, call, previous, complete_subteams, individuals, formed_teams, used,
                   unmatched, complete_assignments, merged_assignments, errors>>

\* ------------------------------------------------- check_compatibility
\* Variant: each subteam is checked on its own instead of the combined group.
check_compatibility_separately(subteam1, subteam2) ==
    /\ Len(calculate_team_project_prefs(subteam1.members)) > 0
    /\ Len(calculate_team_project_prefs(subteam2.members)) > 0

\* Variant: only the first subteam is looked at.
check_compatibility_first(subteam1, subteam2) ==
    Len(calculate_team_project_prefs(subteam1.members)) > 0

check_compatibility(subteam1, subteam2) ==
    Len(calculate_team_project_prefs(subteam1.members \cup subteam2.members)) > 0

\* --------------------------------------------- merge_subteams_into_teams
\* Variant: the used-set is read by index alone.
is_used_any_size(size, idx) == \E other \in 1..4 : <<other, idx>> \in used

is_used(size, idx) == <<size, idx>> \in used

\* temp_merge of strategy 3: an object with only 'members'.
TempMerge(a, b) == [members |-> a.members \cup b.members]

\* Variant: the merged team keeps the members of its first source only.
MergedFirstOnly(sources, size) ==
    [members |-> sources[1].members, source_subteams |-> sources, size |-> size]

Merged(sources, size) ==
    [members |-> UNION {sources[k].members : k \in 1..Len(sources)},
     source_subteams |-> sources, size |-> size]

\* The first pair in the order of two nested for loops.
LexMin(S) ==
    CHOOSE p \in S : \A q \in S : p[1] < q[1] \/ (p[1] = q[1] /\ p[2] <= q[2])

\* What one pass of a strategy's outer loop does: the team it appends (none:
\* <<>>) and the keys it marks used.
NoMerge == [team |-> <<>>, marks |-> {}]

\* Variant of strategy 1: a single is tried before a pair.
Strategy1SingleFirst(n) ==
    LET team4 == incomplete_subteams[4][n]
        j2 == FirstIdx(Len(incomplete_subteams[2]),
                  LAMBDA j : ~is_used(2, j)
                             /\ check_compatibility(team4, incomplete_subteams[2][j]))
        j1 == FirstIdx(Len(incomplete_subteams[1]),
                  LAMBDA j : ~is_used(1, j)
                             /\ check_compatibility(team4, incomplete_subteams[1][j]))
    IN  IF is_used(4, n) THEN NoMerge
        ELSE IF j1 # 0
             THEN [team |-> <<Merged(<<team4, incomplete_subteams[1][j1]>>, 5)>>,
                   marks |-> {<<4, n>>, <<1, j1>>}]
        ELSE IF j2 # 0
             THEN [team |-> <<Merged(<<team4, incomplete_subteams[2][j2]>>, 6)>>,
                   marks |-> {<<4, n>>, <<2, j2>>}]
        ELSE NoMerge

\* Strategy 1, outer index n: size 4 + size 2 = 6, else size 4 + size 1 = 5.
Strategy1(n) ==
    LET team4 == incomplete_subteams[4][n]
        j2 == FirstIdx(Len(incomplete_subteams[2]),
                  LAMBDA j : ~is_used(2, j)
                             /\ check_compatibility(team4, incomplete_subteams[2][j]))
        j1 == FirstIdx(Len(incomplete_subteams[1]),
                  LAMBDA j : ~is_used(1, j)
                             /\ check_compatibility(team4, incomplete_subteams[1][j]))
    IN  IF is_used(4, n) THEN NoMerge
        ELSE IF j2 # 0
             THEN [team |-> <<Merged(<<team4, incomplete_subteams[2][j2]>>, 6)>>,
                   marks |-> {<<4, n>>, <<2, j2>>}]
        ELSE IF j1 # 0
             THEN [team |-> <<Merged(<<team4, incomplete_subteams[1][j1]>>, 5)>>,
                   marks |-> {<<4, n>>, <<1, j1>>}]
        ELSE NoMerge

\* Variant of strategy 2: a pair is tried before another size-3 subteam.
Strategy2PairFirst(n) ==
    LET team3a == incomplete_subteams[3][n]
        j3 == FirstIdx(Len(incomplete_subteams[3]),
                  LAMBDA j : n < j /\ ~is_used(3, j)
                             /\ check_compatibility(team3a, incomplete_subteams[3][j]))
        j2 == FirstIdx(Len(incomplete_subteams[2]),
                  LAMBDA j : ~is_used(2, j)
                             /\ check_compatibility(team3a, incomplete_subteams[2][j]))
    IN  IF is_used(3, n) THEN NoMerge
        ELSE IF j2 # 0
             THEN [team |-> <<Merged(<<team3a, incomplete_subteams[2][j2]>>, 5)>>,
                   marks |-> {<<3, n>>, <<2, j2>>}]
        ELSE IF j3 # 0
             THEN [team |-> <<Merged(<<team3a, incomplete_subteams[3][j3]>>, 6)>>,
                   marks |-> {<<3, n>>, <<3, j3>>}]
        ELSE NoMerge

\* Strategy 2, outer index n: size 3 + size 3 = 6, else size 3 + size 2 = 5.
Strategy2(n) ==
    LET team3a == incomplete_subteams[3][n]
        j3 == FirstIdx(Len(incomplete_subteams[3]),
                  LAMBDA j : n < j /\ ~is_used(3, j)
                             /\ check_compatibility(team3a, incomplete_subteams[3][j]))
        j2 == FirstIdx(Len(incomplete_subteams[2]),
                  LAMBDA j : ~is_used(2, j)
                             /\ check_compatibility(team3a, incomplete_subteams[2][j]))
    IN  IF is_used(3, n) THEN NoMerge
        ELSE IF j3 # 0
             THEN [team |-> <<Merged(<<team3a, incomplete_subteams[3][j3]>>, 6)>>,
                   marks |-> {<<3, n>>, <<3, j3>>}]
        ELSE IF j2 # 0
             THEN [team |-> <<Merged(<<team3a, incomplete_subteams[2][j2]>>, 5)>>,
                   marks |-> {<<3, n>>, <<2, j2>>}]
        ELSE NoMerge

\* Variant of strategy 3: the third subteam is checked against each of the
\* first two, not against their union.
Strategy3Pairwise(n) ==
    LET twos == incomplete_subteams[2]
        ones == incomplete_subteams[1]
        team2a == twos[n]
        Second(j) == n < j /\ ~is_used(2, j) /\ check_compatibility(team2a, twos[j])
        triples == {p \in (1..Len(twos)) \X (1..Len(twos)) :
                       /\ Second(p[1])
                       /\ p[1] < p[2] /\ ~is_used(2, p[2])
                       /\ check_compatibility(team2a, twos[p[2]])
                       /\ check_compatibility(twos[p[1]], twos[p[2]])}
        withOne == {p \in (1..Len(twos)) \X (1..Len(ones)) :
                       /\ Second(p[1])
                       /\ ~is_used(1, p[2])
                       /\ check_compatibility(team2a, ones[p[2]])
                       /\ check_compatibility(twos[p[1]], ones[p[2]])}
    IN  IF is_used(2, n) THEN NoMerge
        ELSE IF triples # {}
             THEN LET p == LexMin(triples)
                  IN  [team |-> <<Merged(<<team2a, twos[p[1]], twos[p[2]]>>, 6)>>,
                       marks |-> {<<2, n>>, <<2, p[1]>>, <<2, p[2]>>}]
        ELSE IF withOne # {}
             THEN LET p == LexMin(withOne)
                  IN  [team |-> <<Merged(<<team2a, twos[p[1]], ones[p[2]]>>, 5)>>,
                       marks |-> {<<2, n>>, <<2, p[1]>>, <<1, p[2]>>}]
        ELSE NoMerge

\* Strategy 3, outer index n: 2 + 2 + 2 = 6, else 2 + 2 + 1 = 5.
Strategy3(n) ==
    LET twos == incomplete_subteams[2]
        ones == incomplete_subteams[1]
        team2a == twos[n]
        Second(j) == n < j /\ ~is_used(2, j) /\ check_compatibility(team2a, twos[j])
        triples == {p \in (1..Len(twos)) \X (1..Len(twos)) :
                       /\ Second(p[1])
                       /\ p[1] < p[2] /\ ~is_used(2, p[2])
                       /\ check_compatibility(TempMerge(team2a, twos[p[1]]), twos[p[2]])}
        withOne == {p \in (1..Len(twos)) \X (1..Len(ones)) :
                       /\ Second(p[1])
                       /\ ~is_used(1, p[2])
                       /\ check_compatibility(TempMerge(team2a, twos[p[1]]), ones[p[2]])}
    IN  IF is_used(2, n) THEN NoMerge
        ELSE IF triples # {}
             THEN LET p == LexMin(triples)
                  IN  [team |-> <<Merged(<<team2a, twos[p[1]], twos[p[2]]>>, 6)>>,
                       marks |-> {<<2, n>>, <<2, p[1]>>, <<2, p[2]>>}]
        ELSE IF withOne # {}
             THEN LET p == LexMin(withOne)
                  IN  [team |-> <<Merged(<<team2a, twos[p[1]], ones[p[2]]>>, 5)>>,
                       marks |-> {<<2, n>>, <<2, p[1]>>, <<1, p[2]>>}]
        ELSE NoMerge

\* Strategy 4: the indices of the singles that are not used, in list order.
available_individuals ==
    SelectSeq([k \in 1..Len(incomplete_subteams[1]) |-> k], LAMBDA k : ~is_used(1, k))

\* The window of group_size available singles that starts at position w.
Window(w, group_size) == SubSeq(available_individuals, w, w + group_size - 1)

WindowMembers(w, group_size) ==
    UNION {incomplete_subteams[1][Window(w, group_size)[k]].members : k \in 1..group_size}

\* The start of the first window of group_size whose members share a project
\* (0: there is none, or fewer than group_size singles are available).
FirstWindow(group_size) ==
    FirstIdx(Len(available_individuals) - group_size + 1,
        LAMBDA w : Len(calculate_team_project_prefs(WindowMembers(w, group_size))) > 0)

\* Variant of a round: whichever window starts first is taken, a window of 6
\* only when it starts no later than the first window of 5.
Strategy4EarliestWindow ==
    LET Take(w, group_size) ==
            [team |-> <<[members |-> WindowMembers(w, group_size),
                         source_subteams |->
                             [k \in 1..group_size |->
                                 incomplete_subteams[1][Window(w, group_size)[k]]],
                         size |-> group_size]>>,
             marks |-> {<<1, Window(w, group_size)[k]>> : k \in 1..group_size}]
        w6 == FirstWindow(6)
        w5 == FirstWindow(5)
    IN  IF w6 # 0 /\ (w5 = 0 \/ w6 <= w5) THEN Take(w6, 6)
        ELSE IF w5 # 0 THEN Take(w5, 5)
        ELSE NoMerge

\* Variant of a round: only windows of 6 are tried.
Strategy4SixOnly ==
    LET w6 == FirstWindow(6)
    IN  IF w6 # 0
        THEN [team |-> <<[members |-> WindowMembers(w6, 6),
                          source_subteams |->
                              [k \in 1..6 |-> incomplete_subteams[1][Window(w6, 6)[k]]],
                          size |-> 6]>>,
              marks |-> {<<1, Window(w6, 6)[k]>> : k \in 1..6}]
        ELSE NoMerge

\* Variant of a round: the team is formed and its singles are not marked used.
Strategy4NoMark ==
    LET Take(w, group_size) ==
            [team |-> <<[members |-> WindowMembers(w, group_size),
                         source_subteams |->
                             [k \in 1..group_size |->
                                 incomplete_subteams[1][Window(w, group_size)[k]]],
                         size |-> group_size]>>,
             marks |-> {}]
        w6 == FirstWindow(6)
        w5 == FirstWindow(5)
    IN  IF w6 # 0 THEN Take(w6, 6)
        ELSE IF w5 # 0 THEN Take(w5, 5)
        ELSE NoMerge

\* One round of the while loop: group size 6 first, then 5.
Strategy4 ==
    LET Take(w, group_size) ==
            [team |-> <<[members |-> WindowMembers(w, group_size),
                         source_subteams |->
                             [k \in 1..group_size |->
                                 incomplete_subteams[1][Window(w, group_size)[k]]],
                         size |-> group_size]>>,
             marks |-> {<<1, Window(w, group_size)[k]>> : k \in 1..group_size}]
        w6 == FirstWindow(6)
        w5 == FirstWindow(5)
    IN  IF w6 # 0 THEN Take(w6, 6)
        ELSE IF w5 # 0 THEN Take(w5, 5)
        ELSE NoMerge

RECURSIVE Unused(_, _)
\* The team objects of one size that are not used, from index k on.
Unused(size, k) ==
    IF k > Len(incomplete_subteams[size]) THEN <<>>
    ELSE (IF is_used(size, k) THEN <<>> ELSE <<incomplete_subteams[size][k]>>)
         \o Unused(size, k + 1)

\* Variant: every incomplete subteam is returned as unmatched, used or not.
collect_unmatched_all ==
    incomplete_subteams[4] \o incomplete_subteams[3] \o incomplete_subteams[2]
        \o incomplete_subteams[1]

collect_unmatched == Unused(4, 1) \o Unused(3, 1) \o Unused(2, 1) \o Unused(1, 1)

MergeFrame == <<inputs, call, previous, complete_subteams, individuals, complete_teams,
                incomplete_subteams, unmatched, complete_assignments,
                merged_assignments, errors, status>>

\* Variant: the merge is done in place, every consumed subteam's member set
\* becoming the merged set.
ApplyInPlace(result) ==
    /\ formed_teams' = formed_teams \o result.team
    /\ used' = used \cup result.marks
    /\ incomplete_subteams' =
           [size \in 1..4 |->
               [k \in 1..Len(incomplete_subteams[size]) |->
                   IF <<size, k>> \in result.marks
                   THEN [incomplete_subteams[size][k] EXCEPT
                             !.members = result.team[1].members]
                   ELSE incomplete_subteams[size][k]]]
    /\ UNCHANGED <<inputs, call, previous, complete_subteams, individuals, complete_teams,
                   unmatched, complete_assignments, merged_assignments, errors, status>>

\* What a pass of a strategy's loop does to the state of merge.
Apply(result) ==
    /\ formed_teams' = formed_teams \o result.team
    /\ used' = used \cup result.marks
    /\ UNCHANGED MergeFrame

\* One pass of the outer for loop of strategy 1.
Merge1Step ==
    /\ pc = "merge1"
    /\ i <= Len(incomplete_subteams[4])
    /\ Apply(Strategy1(i))
    /\ i' = i + 1
    /\ pc' = pc

\* The loop of strategy 1 is exhausted.
Merge1Done ==
    /\ pc = "merge1"
    /\ i > Len(incomplete_subteams[4])
    /\ pc' = "merge2"
    /\ i' = 1
    /\ UNCHANGED <<MergeFrame, formed_teams, used>>

Merge2Step ==
    /\ pc = "merge2"
    /\ i <= Len(incomplete_subteams[3])
    /\ Apply(Strategy2(i))
    /\ i' = i + 1
    /\ pc' = pc

Merge2Done ==
    /\ pc = "merge2"
    /\ i > Len(incomplete_subteams[3])
    /\ pc' = "merge3"
    /\ i' = 1
    /\ UNCHANGED <<MergeFrame, formed_teams, used>>

Merge3Step ==
    /\ pc = "merge3"
    /\ i <= Len(incomplete_subteams[2])
    /\ Apply(Strategy3(i))
    /\ i' = i + 1
    /\ pc' = pc

Merge3Done ==
    /\ pc = "merge3"
    /\ i > Len(incomplete_subteams[2])
    /\ pc' = "merge4"
    /\ i' = 1
    /\ UNCHANGED <<MergeFrame, formed_teams, used>>

\* A round of the while loop of strategy 4 that forms a team.
Merge4Round ==
    /\ pc = "merge4"
    /\ Len(available_individuals) >= 5
    /\ LET round == Strategy4
       IN  /\ round # NoMerge
           /\ Apply(round)
    /\ UNCHANGED <<pc, i>>

\* The while loop ends: fewer than 5 singles are left, or no window is
\* compatible.
Merge4Done ==
    /\ pc = "merge4"
    /\ (Len(available_individuals) < 5 \/ Strategy4 = NoMerge)
    /\ pc' = "collect"
    /\ UNCHANGED <<MergeFrame, formed_teams, used, i>>

\* The unmatched list and the return to main, with main's assertion on the
\* sizes of the merged teams.
CollectUnmatched ==
    /\ pc = "collect"
    /\ unmatched' = collect_unmatched
    /\ IF SizesOK(formed_teams)
       THEN pc' = "assign_complete" /\ status' = status
       ELSE pc' = "done" /\ status' = "aborted"
    /\ UNCHANGED <<inputs, call, previous, i, complete_subteams, individuals, complete_teams,
                   incomplete_subteams, formed_teams, used, complete_assignments,
                   merged_assignments, errors>>

\* ------------------------------------------------------ project assigners
RECURSIVE AssignLoopUnsorted(_, _, _, _)
\* Variant: team_members is list(team['members']) instead of sorted(...).
AssignLoopUnsorted(teams, k, assignments, reported) ==
    IF k > Len(teams) THEN [assignments |-> assignments, reported |-> reported]
    ELSE LET common_prefs == calculate_team_project_prefs(teams[k].members)
             best == common_prefs[1]
         IN  IF common_prefs = <<>>
             THEN AssignLoopUnsorted(teams, k + 1, assignments,
                                     reported \cup {teams[k].members})
             ELSE AssignLoopUnsorted(teams, k + 1,
                      Append(assignments,
                          [team_members |-> IterOrder(teams[k].members),
                           project |-> best.project,
                           aggregate_score |-> best.aggregate_score,
                           individual_rankings |-> best.rankings]),
                      reported)

RECURSIVE AssignLoop(_, _, _, _)
\* The for loop of an assigner from team k on: a team without a common
\* project is reported and skipped (continue), every other team gets the
\* first entry of its sorted common_prefs.
AssignLoop(teams, k, assignments, reported) ==
    IF k > Len(teams) THEN [assignments |-> assignments, reported |-> reported]
    ELSE LET common_prefs == calculate_team_project_prefs(teams[k].members)
             best == common_prefs[1]
         IN  IF common_prefs = <<>>
             THEN AssignLoop(teams, k + 1, assignments,
                             reported \cup {teams[k].members})
             ELSE AssignLoop(teams, k + 1,
                      Append(assignments,
                          [team_members |-> SortedAsc(teams[k].members),
                           project |-> best.project,
                           aggregate_score |-> best.aggregate_score,
                           individual_rankings |-> best.rankings]),
                      reported)

assign_projects(teams) == AssignLoop(teams, 1, <<>>, {})

\* main's assertions on a list of assignments: 5 or 6 members, and the
\* project is in the preference map of every member.
AssignmentsOK(assignments) ==
    \A k \in 1..Len(assignments) :
        /\ Len(assignments[k].team_members) \in {5, 6}
        /\ \A n \in 1..Len(assignments[k].team_members) :
               assignments[k].project \in DOMAIN PrefsOf(assignments[k].team_members[n])

AssignComplete ==
    /\ pc = "assign_complete"
    /\ LET result == assign_projects(complete_teams)
       IN  /\ complete_assignments' = result.assignments
           /\ errors' = errors \cup result.reported
           /\ IF AssignmentsOK(result.assignments)
              THEN pc' = "assign_merged" /\ status' = status
              ELSE pc' = "done" /\ status' = "aborted"
    /\ UNCHANGED <<inputs, call, previous, i, complete_subteams, individuals, complete_teams,
                   incomplete_subteams, formed_teams, used, unmatched,
                   merged_assignments>>

AssignMerged ==
    /\ pc = "assign_merged"
    /\ LET result == assign_projects(formed_teams)
       IN  /\ merged_assignments' = result.assignments
           /\ errors' = errors \cup result.reported
           /\ IF AssignmentsOK(result.assignments)
              THEN pc' = "analyze" /\ status' = status
              ELSE pc' = "done" /\ status' = "aborted"
    /\ UNCHANGED <<inputs, call, previous, i, complete_subteams, individuals, complete_teams,
                   incomplete_subteams, formed_teams, used, unmatched,
                   complete_assignments>>

\* --------------------------------------------------------- the end of main
all_assignments == complete_assignments \o merged_assignments

\* analyze_assignments divides by len(assignments): with no assignment the
\* ZeroDivisionError reaches main's except clause, which exits with 1.
\* Otherwise the output and the report are written and main completes.
Analyze ==
    /\ pc = "analyze"
    /\ status' = IF all_assignments = <<>> THEN "aborted" ELSE "completed"
    /\ pc' = "done"
    /\ UNCHANGED <<inputs, call, previous, i, complete_subteams, individuals, complete_teams,
                   incomplete_subteams, formed_teams, used, unmatched,
                   complete_assignments, merged_assignments, errors>>

Next ==
    \/ Identify
    \/ Classify
    \/ Merge1Step
    \/ Merge1Done
    \/ Merge2Step
    \/ Merge2Done
    \/ Merge3Step
    \/ Merge3Done
    \/ Merge4Round
    \/ Merge4Done
    \/ CollectUnmatched
    \/ AssignComplete
    \/ AssignMerged
    \/ Analyze

Spec == Init /\ [][Next]_vars

\* ------------------------------------------------- a second run of main
\* What a completed run leaves behind: the teams, for each team its project
\* and rankings list, and the unmatched subteams.  Lists are compared as sets,
\* so that a different order of the teams alone is no difference.
Output ==
    [teams |-> {complete_teams[k].members : k \in 1..Len(complete_teams)}
               \cup {formed_teams[k].members : k \in 1..Len(formed_teams)},
     assignments |-> {[team |-> Range(all_assignments[k].team_members),
                       project |-> all_assignments[k].project,
                       individual_rankings |-> all_assignments[k].individual_rankings] :
                         k \in 1..Len(all_assignments)},
     unmatched |-> {unmatched[k].members : k \in 1..Len(unmatched)}]

\* main is started again on the same survey, in a new process: the inputs are
\* the same in the same order, the iteration order of sets is that of the new
\* process.
RunAgain ==
    /\ pc = "done"
    /\ status = "completed"
    /\ previous.run = "none"
    /\ previous' = [run |-> "completed", output |-> Output]
    /\ hashSeed' \in {0, 1}
    /\ pc' = "identify"
    /\ i' = 1
    /\ complete_subteams' = <<>>
    /\ individuals' = {}
    /\ complete_teams' = <<>>
    /\ incomplete_subteams' = [size \in 1..4 |-> <<>>]
    /\ formed_teams' = <<>>
    /\ used' = {}
    /\ unmatched' = <<>>
    /\ complete_assignments' = <<>>
    /\ merged_assignments' = <<>>
    /\ errors' = {}
    /\ status' = "running"
    /\ UNCHANGED <<subteam_prefs, rows, project_prefs, call>>

NextTwice ==
    \/ Next
    \/ RunAgain

SpecTwice == Init /\ [][NextTwice]_vars

\* ------------------------------------------- direct calls of validate_subteam
\* The candidate sets tried on a request map: every student's own candidate,
\* and that candidate with one identifier more or one less.
Candidates ==
    LET ids == DOMAIN subteam_prefs \cup {UnknownId}
        own == {{s} \cup Range(subteam_prefs[s]) : s \in DOMAIN subteam_prefs}
    IN  own \cup {c \cup {x} : c \in own, x \in ids} \cup {c \ {x} : c \in own, x \in ids}

CallValidate ==
    /\ pc = "identify"
    /\ \E members \in Candidates :
           call' = [fn |-> "validate_subteam", members |-> members,
                    result |-> validate_subteam(members)]
    /\ UNCHANGED <<inputs, previous, pc, i, complete_subteams, individuals, complete_teams,
                   incomplete_subteams, formed_teams, used, unmatched,
                   complete_assignments, merged_assignments, errors, status>>

InitValidate ==
    /\ hashSeed \in {0, 1}
    /\ subteam_prefs \in RequestMaps
    /\ project_prefs = [s \in Students |-> PrefWindow(1, NumProjects)]
    /\ rows = SortedAsc(DOMAIN subteam_prefs)
    /\ InitOutputs

NextValidate == CallValidate

SpecValidate == InitValidate /\ [][NextValidate]_vars

\* ---------------------------------------- direct calls of check_compatibility
\* The groups handed to check_compatibility: two to four neighbouring
\* students, and up to two neighbouring students with or without somebody who has no
\* entry in project_prefs.
FirstGroups == {lo..hi : lo \in Students, hi \in Students} \ {{}}

SecondGroups ==
    LET few == {g \in FirstGroups : Cardinality(g) <= 2}
    IN  few \cup {g \cup {UnknownId} : g \in few}

CallCompat ==
    /\ pc = "identify"
    /\ call.fn = "none"
    /\ \E a \in {g \in FirstGroups : Cardinality(g) \in 2..4} : \E b \in SecondGroups :
           call' = [fn |-> "check_compatibility",
                    subteam1 |-> TeamObj(a), subteam2 |-> TeamObj(b),
                    result |-> check_compatibility(TeamObj(a), TeamObj(b)),
                    swapped |-> check_compatibility(TeamObj(b), TeamObj(a))]
    /\ UNCHANGED <<inputs, previous, pc, i, complete_subteams, individuals, complete_teams,
                   incomplete_subteams, formed_teams, used, unmatched,
                   complete_assignments, merged_assignments, errors, status>>

InitCompat ==
    /\ hashSeed \in {0, 1}
    /\ subteam_prefs = MutualRequests([s \in Students |-> 1])
    /\ project_prefs \in PreferenceMaps(Students)
    /\ rows = SortedAsc(DOMAIN subteam_prefs)
    /\ InitOutputs

NextCompat == CallCompat

SpecCompat == InitCompat /\ [][NextCompat]_vars

\* ------------------------------------------- direct calls of an assigner
\* A student of the team ranks the first project 1, 2 or 3 and may also rank
\* the second project, or has no preferences at all.
AssignMenu ==
    {<<>>} \cup {[p \in {1} |-> r] : r \in 1..3}
           \cup {[p \in {1, 2} |-> IF p = 1 THEN r ELSE (IF r = 1 THEN 2 ELSE 1)] : r \in 1..3}

\* One team of five is handed to the assigner.
CallAssign ==
    /\ pc = "identify"
    /\ call.fn = "none"
    /\ call' = [fn |-> "assign_projects", team |-> DOMAIN subteam_prefs,
                result |-> assign_projects(<<TeamObj(DOMAIN subteam_prefs)>>)]
    /\ UNCHANGED <<inputs, previous, pc, i, complete_subteams, individuals, complete_teams,
                   incomplete_subteams, formed_teams, used, unmatched,
                   complete_assignments, merged_assignments, errors, status>>

InitAssign ==
    /\ hashSeed \in {0, 1}
    /\ subteam_prefs = MutualRequests(<<MinTeamSize>>)
    /\ project_prefs \in [1..MinTeamSize -> AssignMenu]
    /\ rows = SortedAsc(DOMAIN subteam_prefs)
    /\ InitOutputs

NextAssign == CallAssign

SpecAssign == InitAssign /\ [][NextAssign]_vars

\* ------------------------------------- identify_subteams in every row order
RECURSIVE SetToSeq(_)
SetToSeq(S) ==
    IF S = {} THEN <<>>
    ELSE LET x == CHOOSE y \in S : TRUE IN <<x>> \o SetToSeq(S \ {x})

ShapeSeq == SetToSeq(Shapes)

KindSeq == <<"none", "drop", "unknown", "extra">>

\* The student c places after s, going round.
Following(s, c) == ((s + c - 1) % NumStudents) + 1

\* A request map in which nobody's candidate is valid although requests are
\* returned: c requests the two students after it, and each of them requests
\* only c.
Star(c) ==
    [s \in Students |->
        IF s = c THEN <<Following(c, 1), Following(c, 2)>>
        ELSE IF s \in {Following(c, 1), Following(c, 2)} THEN <<c>>
        ELSE <<>>]

NumDefectSurveys == Len(ShapeSeq) * Len(KindSeq) * NumStudents

NumSurveys == NumDefectSurveys + NumStudents

\* The n-th survey that is tried: every shape with every kind of defect at
\* every student, then every star.
Survey(n) ==
    IF n > NumDefectSurveys THEN Star(n - NumDefectSurveys)
    ELSE LET m == n - 1
             d == (m % NumStudents) + 1
             kind == KindSeq[((m \div NumStudents) % Len(KindSeq)) + 1]
             shape == ShapeSeq[(m \div (NumStudents * Len(KindSeq))) + 1]
         IN  Defect(MutualRequests(shape), kind, d)

\* The row orders that are tried: the ascending one turned by 0, 1, ... rows,
\* and the descending one.
NumOrders == NumStudents + 1

Order(o) ==
    IF o = NumOrders THEN SortedDesc(Students)
    ELSE [k \in 1..NumStudents |-> Following(k, o - 1)]

\* identify_subteams has returned for a row order, and what it committed
\* differs, as a set of subteams or in the individuals, from what it committed
\* for the first row order of the same request map.
OrderMatters ==
    /\ pc = "classify"
    /\ previous.run = "identified"
    /\ \/ Range(complete_subteams) # Range(previous.complete_subteams)
       \/ individuals # previous.individuals

\* The same survey is read again with its rows in the next order; the result
\* for the first order is kept for comparison, and so is whether any result
\* so far differed from the first of its survey.
Reorder ==
    /\ pc = "classify"
    /\ call.order < NumOrders
    /\ previous' = IF call.order = 1
                   THEN [run |-> "identified", complete_subteams |-> complete_subteams,
                         individuals |-> individuals]
                   ELSE previous
    /\ call' = [call EXCEPT !.order = call.order + 1,
                            !.differed = call.differed \/ OrderMatters]
    /\ rows' = Order(call.order + 1)
    /\ pc' = "identify"
    /\ complete_subteams' = <<>>
    /\ individuals' = {}
    /\ UNCHANGED <<subteam_prefs, project_prefs, hashSeed, i, complete_teams,
                   incomplete_subteams, formed_teams, used, unmatched,
                   complete_assignments, merged_assignments, errors, status>>

\* Every order of this survey has been tried: on to the next survey.
NextSurvey ==
    /\ pc = "classify"
    /\ call.order = NumOrders
    /\ call.survey < NumSurveys
    /\ call' = [fn |-> "identify_subteams", survey |-> call.survey + 1, order |-> 1,
                differed |-> call.differed \/ OrderMatters]
    /\ subteam_prefs' = Survey(call.survey + 1)
    /\ rows' = Order(1)
    /\ previous' = [run |-> "none"]
    /\ pc' = "identify"
    /\ complete_subteams' = <<>>
    /\ individuals' = {}
    /\ UNCHANGED <<project_prefs, hashSeed, i, complete_teams, incomplete_subteams,
                   formed_teams, used, unmatched, complete_assignments,
                   merged_assignments, errors, status>>

InitOrder ==
    /\ hashSeed \in {0, 1}
    /\ subteam_prefs = Survey(1)
    /\ rows = Order(1)
    /\ project_prefs = [s \in Students |-> PrefWindow(1, NumProjects)]
    /\ call = [fn |-> "identify_subteams", survey |-> 1, order |-> 1, differed |-> FALSE]
    /\ previous = [run |-> "none"]
    /\ pc = "identify"
    /\ i = 1
    /\ complete_subteams = <<>>
    /\ individuals = {}
    /\ complete_teams = <<>>
    /\ incomplete_subteams = [size \in 1..4 |-> <<>>]
    /\ formed_teams = <<>>
    /\ used = {}
    /\ unmatched = <<>>
    /\ complete_assignments = <<>>
    /\ merged_assignments = <<>>
    /\ errors = {}
    /\ status = "running"

NextOrder ==
    \/ Identify
    \/ Reorder
    \/ NextSurvey

\* The surveys and orders are tried one after the other.
SpecOrder == InitOrder /\ [][NextOrder]_vars

\* ------------------------------------------------------------ properties
\* Some project is in the preference map of every one of the members.
ShareProject(members) ==
    \E p \in Projects : \A m \in members : p \in DOMAIN PrefsOf(m)

\* identify_subteams has just returned.
Identified == pc = "classify"

\* classify_subteams has returned.
ClassifiedDone == pc \notin {"identify", "classify"}

\* merge_subteams_into_teams has just returned.
MergeReturned == pc = "assign_complete"

\* The incomplete subteams as (size, index) keys.
SubteamKeys == {k \in (1..4) \X (1..NumStudents + MaxTeamSize) :
                   k[2] <= Len(incomplete_subteams[k[1]])}

\* How often a team object is a source of a formed team.
TimesSource(t) ==
    Cardinality({p \in (1..Len(formed_teams)) \X (1..MaxTeamSize) :
                    /\ p[2] <= Len(formed_teams[p[1]].source_subteams)
                    /\ formed_teams[p[1]].source_subteams[p[2]] = t})

TimesIn(list, t) == Cardinality({k \in 1..Len(list) : list[k] = t})

\* C1: every team in formed_teams has a project that is in the preference
\* map of every one of its members, whichever strategy formed it.
C1_FormedTeamsShareProject ==
    \A k \in 1..Len(formed_teams) : ShareProject(formed_teams[k].members)

\* A team was formed although not all students share a project and some
\* subteam had to stay unmatched.
C1_Witness ==
    /\ pc = "done"
    /\ formed_teams # <<>>
    /\ unmatched # <<>>
    /\ ~ShareProject(DOMAIN subteam_prefs)
    /\ \E k \in 1..Len(unmatched) : ShareProject(unmatched[k].members)

\* C2: every formed team has 5 or 6 members, its 'size' equals its member
\* count, and its members are exactly the union of its source subteams.
C2_FormedTeamsSized ==
    \A k \in 1..Len(formed_teams) :
        LET t == formed_teams[k]
        IN  /\ Cardinality(t.members) \in {5, 6}
            /\ t.size = Cardinality(t.members)
            /\ t.members = UNION {t.source_subteams[n].members :
                                     n \in 1..Len(t.source_subteams)}
            /\ \A n \in 1..Len(t.source_subteams) :
                   \A m \in 1..Len(t.source_subteams) :
                       n # m => t.source_subteams[n].members
                                    \cap t.source_subteams[m].members = {}

\* Merge has formed a team of 6 and of 5 from committed subteams of two or
\* more students.
C2_Witness ==
    /\ MergeReturned
    /\ \E k \in 1..Len(formed_teams) :
           /\ formed_teams[k].size = 5
           /\ formed_teams[k].source_subteams[1].size >= 2
           /\ formed_teams[k].source_subteams[2].size >= 2

\* C3: after merge returns every incomplete subteam is a source of exactly
\* one formed team or an entry of unmatched, never both and never neither;
\* no used subteam is in unmatched.
C3_ConsumedOnceOrUnmatched ==
    MergeReturned =>
        /\ \A key \in SubteamKeys :
               LET t == incomplete_subteams[key[1]][key[2]]
               IN  /\ TimesSource(t) + TimesIn(unmatched, t) = 1
                   /\ key \in used <=> TimesSource(t) = 1
        /\ \A k \in 1..Len(unmatched) :
               \E key \in SubteamKeys \ used :
                   unmatched[k] = incomplete_subteams[key[1]][key[2]]

\* Merge returned a formed team of two subteams together with an unmatched
\* subteam of two, which another subteam of two precedes in the list.
C3_Witness ==
    /\ MergeReturned
    /\ Len(formed_teams) = 1
    /\ Cardinality(used) = 2
    /\ Len(incomplete_subteams[2]) = 2
    /\ unmatched = <<incomplete_subteams[2][2]>>

\* C4: identify_subteams returns a partition of the students: every key of
\* the request map is in exactly one committed subteam or in individuals,
\* and a committed subteam holds only keys of the request map.
C4_DiscoveryPartitions ==
    Identified =>
        /\ \A s \in DOMAIN subteam_prefs :
               Cardinality({k \in 1..Len(complete_subteams) : s \in complete_subteams[k]})
                   + (IF s \in individuals THEN 1 ELSE 0) = 1
        /\ \A k \in 1..Len(complete_subteams) :
               complete_subteams[k] \subseteq DOMAIN subteam_prefs
        /\ individuals \subseteq DOMAIN subteam_prefs

\* Discovery committed a subteam and left individuals, one of whom requested
\* an unknown netID.
C4_Witness ==
    /\ Identified
    /\ complete_subteams # <<>>
    /\ \E s \in individuals : UnknownId \in Range(subteam_prefs[s])

\* A member's requests name somebody who is not another member.
HasExtra(member, members) ==
    \E x \in Range(RequestsOf(member)) : x \notin members \/ x = member

\* A member's requests lack another member.
HasMissing(member, members) ==
    \E x \in members : x # member /\ x \notin Range(RequestsOf(member))

\* C5: validate_subteam(members) is true exactly when no member's requests
\* have an extra or a missing student.
C5_ValidateExact ==
    call.fn = "validate_subteam" =>
        (call.result <=> \A m \in call.members :
                             ~HasExtra(m, call.members) /\ ~HasMissing(m, call.members))

\* validate_subteam rejected a candidate of three in which exactly one member
\* has nothing missing but has an extra request.
C5_Witness ==
    /\ call.fn = "validate_subteam"
    /\ ~call.result
    /\ Cardinality(call.members) = 3
    /\ \E m \in call.members :
           /\ HasExtra(m, call.members) /\ ~HasMissing(m, call.members)
           /\ \A o \in call.members \ {m} :
                  ~HasExtra(o, call.members) /\ ~HasMissing(o, call.members)

\* The candidate identify_subteams forms for a student.
CandidateOf(s) == {s} \cup Range(subteam_prefs[s])

\* C6: identify_subteams commits student S if and only if S's request list
\* is not empty and {S} with S's requests passes validate_subteam; the
\* committed subteam is then exactly that set, and every other student is an
\* individual.
C6_CommittedIffValid ==
    Identified =>
        \A s \in DOMAIN subteam_prefs :
            IF subteam_prefs[s] # <<>> /\ validate_subteam(CandidateOf(s))
            THEN /\ s \notin individuals
                 /\ \A k \in 1..Len(complete_subteams) :
                        s \in complete_subteams[k] => complete_subteams[k] = CandidateOf(s)
                 /\ \E k \in 1..Len(complete_subteams) : s \in complete_subteams[k]
            ELSE /\ s \in individuals
                 /\ \A k \in 1..Len(complete_subteams) : s \notin complete_subteams[k]

\* C requests only D, D requests nobody, both are individuals, and some
\* other subteam was committed.
C6_Witness ==
    /\ Identified
    /\ complete_subteams # <<>>
    /\ \E c \in individuals : \E d \in individuals :
           /\ subteam_prefs[c] = <<d>>
           /\ subteam_prefs[d] = <<>>

\* C7: every team handed to an assigner, complete subteam or merged team,
\* has a common project: no team is reported without one.
C7_NoTeamWithoutCommonProject ==
    /\ \A k \in 1..Len(complete_teams) : ShareProject(complete_teams[k].members)
    /\ \A k \in 1..Len(formed_teams) : ShareProject(formed_teams[k].members)
    /\ errors = {}

\* C8: when an assigner finds a team without a common project the run
\* aborts; the team is not skipped while other teams are assigned.
C8_AbortsOnNoCommonProject ==
    (pc = "done" /\ errors # {}) => (status = "aborted" /\ all_assignments = <<>>)

\* C9: classify_subteams raises a fatal error when a committed subteam has a
\* size outside 1..6.
C9_OversizeIsFatal ==
    (ClassifiedDone /\ \E k \in 1..Len(complete_subteams) :
                           Cardinality(complete_subteams[k]) \notin 1..MaxTeamSize)
        => status = "aborted"

\* The buckets of classify_subteams as one list.
Buckets ==
    complete_teams \o incomplete_subteams[1] \o incomplete_subteams[2]
        \o incomplete_subteams[3] \o incomplete_subteams[4]

\* C10: classify_subteams places every committed subteam and every
\* individual in exactly one bucket.
C10_EveryUnitInOneBucket ==
    ClassifiedDone =>
        /\ \A k \in 1..Len(complete_subteams) :
               Cardinality({n \in 1..Len(Buckets) :
                               Buckets[n].members = complete_subteams[k]}) = 1
        /\ \A s \in individuals :
               Cardinality({n \in 1..Len(Buckets) : Buckets[n].members = {s}}) = 1

\* C11: classify_subteams puts only subteams of 5 or 6 in complete_teams,
\* only subteams of exactly s members in incomplete_subteams[s], each with
\* its true size, and every individual is one singleton entry of
\* incomplete_subteams[1].
C11_BucketsBySize ==
    ClassifiedDone =>
        /\ \A k \in 1..Len(complete_teams) :
               /\ Cardinality(complete_teams[k].members) \in {5, 6}
               /\ complete_teams[k].size = Cardinality(complete_teams[k].members)
        /\ \A s \in 1..4 : \A k \in 1..Len(incomplete_subteams[s]) :
               /\ Cardinality(incomplete_subteams[s][k].members) = s
               /\ incomplete_subteams[s][k].size = s
        /\ \A person \in individuals :
               Cardinality({k \in 1..Len(incomplete_subteams[1]) :
                               incomplete_subteams[1][k] = [members |-> {person}, size |-> 1]})
                   = 1

\* classify_subteams filed a committed subteam of three, one of two and two
\* individuals.
C11_Witness ==
    /\ ClassifiedDone
    /\ Len(complete_subteams) = 2
    /\ Len(incomplete_subteams[3]) = 1
    /\ Len(incomplete_subteams[2]) = 1
    /\ Cardinality(individuals) = 2
    /\ Len(incomplete_subteams[1]) = 2

\* The sum of the ranks the members gave a project they all listed.
RankSum(members, project) ==
    LET order == SortedAsc(members)
    IN  SumSeq([k \in 1..Len(order) |-> project_prefs[order[k]][project]])

\* The projects in the preference map of every one of the members.
CommonTo(members) == {p \in Projects : \A m \in members : p \in DOMAIN PrefsOf(m)}

\* C12: the project of every assignment has the least rank sum among the
\* projects common to all members of its team.
C12_AssignmentMinimal ==
    \A k \in 1..Len(all_assignments) :
        LET a == all_assignments[k]
            team == Range(a.team_members)
        IN  /\ a.project \in CommonTo(team)
            /\ \A p \in CommonTo(team) : RankSum(team, a.project) <= RankSum(team, p)

\* A team got the second project although the first one, which precedes it
\* in the iteration order of the common set, is common too with a greater
\* sum.
C12_Witness ==
    /\ hashSeed = 0
    /\ \E k \in 1..Len(all_assignments) :
           LET a == all_assignments[k]
               team == Range(a.team_members)
           IN  /\ a.project = 2
               /\ 1 \in CommonTo(team)
               /\ RankSum(team, 2) < RankSum(team, 1)

\* C15: every assignment lists 5 or 6 distinct students in ascending order,
\* and its project is in the preference map of every one of them.
C15_AssignmentWellFormed ==
    \A k \in 1..Len(all_assignments) :
        LET a == all_assignments[k]
        IN  /\ Len(a.team_members) \in {5, 6}
            /\ \A n \in 1..Len(a.team_members) : a.team_members[n] \in DOMAIN subteam_prefs
            /\ \A n \in 1..(Len(a.team_members) - 1) :
                   a.team_members[n] < a.team_members[n + 1]
            /\ \A n \in 1..Len(a.team_members) :
                   a.project \in DOMAIN PrefsOf(a.team_members[n])

\* A merged team of singles got a project in a process that iterates sets in
\* descending order, while a student who does not list that project stayed
\* unmatched.
C15_Witness ==
    /\ hashSeed = 1
    /\ pc = "done"
    /\ Len(merged_assignments) = 1
    /\ Len(formed_teams[1].source_subteams) >= 5
    /\ \E k \in 1..Len(unmatched) : \E m \in unmatched[k].members :
           merged_assignments[1].project \notin DOMAIN PrefsOf(m)

\* C13: check_compatibility(A, B) is true exactly when some project is in the
\* preference map of every member of A and B, a member without a map making
\* it false; and it gives the same answer for (B, A).
C13_CompatibleIffCommon ==
    call.fn = "check_compatibility" =>
        LET all == call.subteam1.members \cup call.subteam2.members
        IN  /\ call.result <=>
                   \E p \in Projects : \A m \in all :
                       m \in DOMAIN project_prefs /\ p \in DOMAIN project_prefs[m]
            /\ call.swapped = call.result

\* check_compatibility refused two groups whose students all list a common
\* project, because one member has no entry in project_prefs.
C13_Witness ==
    /\ call.fn = "check_compatibility"
    /\ ~call.result
    /\ UnknownId \in call.subteam2.members
    /\ Cardinality(call.subteam1.members) = 4
    /\ \E p \in Projects :
           \A m \in (call.subteam1.members \cup call.subteam2.members) \ {UnknownId} :
               p \in DOMAIN project_prefs[m]

\* C14: a second run of main on the same request map and preference map, in
\* the same order, ends with the same teams, the same project and rankings
\* list for each team and the same unmatched subteams as the first.
C14_SameOutputTwice ==
    (pc = "done" /\ status = "completed" /\ previous.run = "completed")
        => Output = previous.output

\* C16: in every assignment aggregate_score is the sum of the ranks the
\* team's members gave the assigned project, and individual_rankings holds
\* one rank per member: as a multiset, exactly the members' ranks.
C16_ScoreIsRankSum ==
    call.fn = "assign_projects" =>
        \A k \in 1..Len(call.result.assignments) :
            LET a == call.result.assignments[k]
            IN  /\ a.aggregate_score = RankSum(call.team, a.project)
                /\ Len(a.individual_rankings) = Cardinality(call.team)
                /\ \A r \in 1..MaxRank :
                       Cardinality({n \in 1..Len(a.individual_rankings) :
                                       a.individual_rankings[n] = r})
                           = Cardinality({m \in call.team : project_prefs[m][a.project] = r})

\* Five members rank the only common project 1, 1, 1, 2 and 3: the assignment
\* has aggregate score 8.
C16_Witness ==
    /\ call.fn = "assign_projects"
    /\ CommonTo(call.team) = {1}
    /\ \A m \in 1..3 : project_prefs[m][1] = 1
    /\ project_prefs[4][1] = 2
    /\ project_prefs[5][1] = 3
    /\ Len(call.result.assignments) = 1
    /\ call.result.assignments[1].project = 1
    /\ call.result.assignments[1].aggregate_score = 8

\* C17: when merging leaves every subteam unmatched and there is no complete
\* team, so that no assignment exists, the run still goes through analysis,
\* output and report and completes.
C17_ContinuesWithoutAssignments ==
    (pc = "done" /\ complete_teams = <<>> /\ formed_teams = <<>> /\ unmatched # <<>>)
        => status = "completed"

\* The entries of incomplete_subteams as one set, and the member sets merge
\* can put together from them.
IncompleteEntries ==
    Range(incomplete_subteams[4]) \cup Range(incomplete_subteams[3])
        \cup Range(incomplete_subteams[2]) \cup Range(incomplete_subteams[1])

MergeGroups == {UNION {e.members : e \in S} : S \in SUBSET IncompleteEntries} \ {{}}

InMerge == pc \in {"merge1", "merge2", "merge3", "merge4", "collect"}

\* C19: no component changes what it was given.  No step changes the request
\* map or the preference map; after discovery the committed subteams and the
\* individuals stay as they are; after classification so do complete_teams
\* and incomplete_subteams, with every subteam's member set; merge changes
\* only its used-set and its own lists, to which it only appends; and the
\* assigners change nothing of what merge returned.
C19_NothingReceivedIsModified ==
    [][/\ UNCHANGED <<subteam_prefs, rows, project_prefs>>
       /\ pc # "identify" => UNCHANGED <<complete_subteams, individuals>>
       /\ pc \notin {"identify", "classify"} =>
              UNCHANGED <<complete_teams, incomplete_subteams>>
       /\ InMerge =>
              /\ UNCHANGED <<complete_assignments, merged_assignments, errors>>
              /\ Len(formed_teams') >= Len(formed_teams)
              /\ SubSeq(formed_teams', 1, Len(formed_teams)) = formed_teams
              /\ used \subseteq used'
       /\ pc \in {"assign_complete", "assign_merged", "analyze"} =>
              UNCHANGED <<formed_teams, used, unmatched>>]_vars

\* The whole pipeline has run on a survey from which merge formed a team,
\* left a subteam unmatched and the assigner gave the team a project.
C19_Witness ==
    /\ pc = "done"
    /\ status = "completed"
    /\ Len(formed_teams) = 1
    /\ Len(formed_teams[1].source_subteams) = 3
    /\ unmatched # <<>>
    /\ merged_assignments # <<>>

\* C20 (as stated): identify_subteams is order-dependent: among the request
\* maps and the row orders, which differ only in how students with request
\* lists of equal length follow each other, there are a request map and two
\* orders for which it commits a different set of subteams and individuals.
\* Once every request map has been tried in every order, that case has been
\* met.
C20_OrderDependent ==
    (pc = "classify" /\ call.fn = "identify_subteams"
        /\ call.survey = NumSurveys /\ call.order = NumOrders)
        => (call.differed \/ OrderMatters)

\* C20 (amended): identify_subteams commits the same set of subteams and the
\* same individuals for every row order of a request map; only the order of
\* the list complete_subteams follows the row order.
C20_OrderIndependent == ~OrderMatters

\* For the descending row order identify_subteams returned the same two
\* subteams of equal size as for the ascending one, in the other list order.
C20_Witness ==
    /\ pc = "classify"
    /\ previous.run = "identified"
    /\ call.order = NumOrders
    /\ Len(complete_subteams) = 2
    /\ Cardinality(complete_subteams[1]) = Cardinality(complete_subteams[2])
    /\ complete_subteams[1] = previous.complete_subteams[2]
    /\ complete_subteams[2] = previous.complete_subteams[1]
    /\ individuals # {}

\* ---------------------------------------------------------------- C21
\* The identifiers a candidate can hold: the survey's students and the
\* identifier no row belongs to.
Identifiers == DOMAIN subteam_prefs \cup {UnknownId}

\* The groups that pass validate_subteam.
ValidGroups == {members \in SUBSET Identifiers : validate_subteam(members)}

\* The students committed before the loop of identify_subteams reaches the
\* k-th person.
AssignedBefore(k) == IdentifyLoop(SubSeq(sorted_people, 1, k - 1), 1, <<>>, {}).assigned

\* C21: two groups that both pass validate_subteam are equal or disjoint, and
\* in identify_subteams the candidate of a student who is not yet assigned,
\* when it passes validate_subteam, shares no student with the assigned set:
\* the overlap check never rejects a valid candidate.
C21_ValidCandidatesDisjoint ==
    pc = "identify" =>
        /\ call.order = 1 =>
              LET valid == ValidGroups
              IN  \A a \in valid : \A b \in valid : a = b \/ a \cap b = {}
        /\ \A k \in 1..Len(sorted_people) :
              LET netid == sorted_people[k]
                  assigned == AssignedBefore(k)
              IN  (netid \notin assigned /\ CandidateOf(netid) \cap assigned # {})
                      => ~validate_subteam(CandidateOf(netid))

\* identify_subteams has committed two subteams for rows that are not in
\* ascending order; one student's candidate was valid and equal to that of a
\* team mate, another's overlapped a committed subteam and was not valid.
C21_Witness ==
    /\ pc = "classify"
    /\ call.fn = "identify_subteams"
    /\ call.order > 1
    /\ Len(complete_subteams) = 2
    /\ \E s \in DOMAIN subteam_prefs : \E t \in DOMAIN subteam_prefs :
          /\ s # t
          /\ validate_subteam(CandidateOf(s))
          /\ CandidateOf(s) = CandidateOf(t)
    /\ \E u \in individuals :
          /\ ~validate_subteam(CandidateOf(u))
          /\ \E k \in 1..2 : CandidateOf(u) \cap complete_subteams[k] # {}

\* ---------------------------------------------------------------- C22
\* The projects listed by anybody.
ListedProjects == UNION {DOMAIN project_prefs[s] : s \in DOMAIN project_prefs}

\* Some project is listed by every one of the students.
Common(students) == \E p \in ListedProjects : \A m \in students : p \in DOMAIN PrefsOf(m)

\* The indices of the subteams of a size that are not used and whose members,
\* with the given students, have a project in common.
Partners(size, students) ==
    {j \in 1..Len(incomplete_subteams[size]) :
        /\ <<size, j>> \notin used
        /\ Common(students \cup incomplete_subteams[size][j].members)}

\* The team a strategy forms from its sources.
TeamOf(sources) ==
    [members |-> UNION {sources[k].members : k \in 1..Len(sources)},
     source_subteams |-> sources, size |-> SumSeq([k \in 1..Len(sources) |-> sources[k].size])]

\* A step forms exactly this team and marks exactly these keys.
Forms(sources, keys) ==
    /\ formed_teams' = Append(formed_teams, TeamOf(sources))
    /\ used' = used \cup keys

FormsNothing == UNCHANGED <<formed_teams, used>>

MergeShapes == {<<4, 2, 1, 1>>, <<3, 3, 2>>, <<2, 2, 2, 2>>, <<2, 2, 2, 1, 1>>}

\* Six projects, each listed by two of four groups, so that any two of the
\* groups share exactly one project and no three share any.
SharedBy == <<{1, 2}, {1, 3}, {1, 4}, {2, 3}, {2, 4}, {3, 4}>>

ListOf(group) == {p \in DOMAIN SharedBy : group \in SharedBy[p]}

\* What the students of a subteam list: the list of one of the four groups,
\* or the last project alone.
MergeMenu == {ListOf(group) : group \in 1..4} \cup {{Len(SharedBy)}}

\* The preference map of a student who ranks a list in ascending order.
Ranked(list) == [p \in list |-> Cardinality({q \in list : q <= p})]

\* The place of a student's block in the shape.
BlockIndex(shape, s) ==
    CHOOSE c \in 1..Len(shape) :
        BlockStart(shape, c) <= s /\ s < BlockStart(shape, c) + shape[c]

InitMerge ==
    /\ hashSeed \in {0, 1}
    /\ \E shape \in MergeShapes :
          /\ subteam_prefs = MutualRequests(shape)
          /\ \E lists \in [1..Len(shape) -> MergeMenu] :
                project_prefs = [s \in StudentsOf(shape) |-> Ranked(lists[BlockIndex(shape, s)])]
    /\ rows = SortedAsc(DOMAIN subteam_prefs)
    /\ InitOutputs

\* No round of strategy 4 forms a team: there are at most two singles.
NextMerge ==
    \/ Identify
    \/ Classify
    \/ Merge1Step
    \/ Merge1Done
    \/ Merge2Step
    \/ Merge2Done
    \/ Merge3Step
    \/ Merge3Done
    \/ Merge4Done
    \/ CollectUnmatched
    \/ AssignComplete
    \/ AssignMerged
    \/ Analyze

SpecMerge == InitMerge /\ [][NextMerge]_vars

FourPairsNoTriple ==
    LET twos == incomplete_subteams[2]
    IN  /\ Len(twos) = 4
        /\ \A size \in {1, 3, 4} : incomplete_subteams[size] = <<>>
        /\ complete_teams = <<>>
        /\ \A a \in 1..4 : \A b \in 1..4 : Common(twos[a].members \cup twos[b].members)
        /\ \A a \in 1..4 : \A b \in 1..4 : \A c \in 1..4 :
              (a # b /\ b # c /\ a # c) =>
                  ~Common(twos[a].members \cup twos[b].members \cup twos[c].members)

\* C24: strategy 3 merges the size-2 subteam at index i with two unused
\* size-2 subteams later in the list, j > i and k > j, into a team of 6 only
\* when the union of all three has a common project, taking the first such
\* (j, k); it merges it with a later size-2 subteam and a size-1 subteam,
\* into a team of 5, only when there is no such triple for i.  With four
\* size-2 subteams of which any two share a project and no three do, and no
\* other subteam, no team is formed and all four are returned unmatched.
C24_Strategy3 ==
    /\ [][pc = "merge3" =>
            IF i <= Len(incomplete_subteams[2])
            THEN LET twos == incomplete_subteams[2]
                     ones == incomplete_subteams[1]
                     team2a == twos[i]
                     later == {j \in Partners(2, team2a.members) : j > i}
                     Both(j) == team2a.members \cup twos[j].members
                     triples == {p \in later \X (1..Len(twos)) :
                                    p[2] > p[1] /\ p[2] \in Partners(2, Both(p[1]))}
                     withOne == {p \in later \X (1..Len(ones)) :
                                    p[2] \in Partners(1, Both(p[1]))}
                 IN  /\ pc' = "merge3" /\ i' = i + 1
                     /\ IF <<2, i>> \in used THEN FormsNothing
                        ELSE IF triples # {}
                        THEN LET p == LexMin(triples)
                             IN  Forms(<<team2a, twos[p[1]], twos[p[2]]>>,
                                       {<<2, i>>, <<2, p[1]>>, <<2, p[2]>>})
                        ELSE IF withOne # {}
                        THEN LET p == LexMin(withOne)
                             IN  Forms(<<team2a, twos[p[1]], ones[p[2]]>>,
                                       {<<2, i>>, <<2, p[1]>>, <<1, p[2]>>})
                        ELSE FormsNothing
            ELSE pc' = "merge4" /\ FormsNothing]_vars
    /\ []((MergeReturned /\ FourPairsNoTriple) =>
              (formed_teams = <<>> /\ unmatched = incomplete_subteams[2]))

\* merge has returned for four pairs of which any two share a project and no
\* three do.
C24_Witness == MergeReturned /\ FourPairsNoTriple

\* ------------------------------------------------- a survey of singles only
Singles == 1..NumSingles

\* What a single lists: the first project, the second, or both.
SingleMenu == {Ranked({1}), Ranked({2}), Ranked({1, 2})}

\* The first students have one list, the next ones a second, the rest a
\* third.
SinglePrefs ==
    {[s \in Singles |-> IF s <= a THEN first ELSE IF s <= b THEN second ELSE third] :
        a \in 0..NumSingles, b \in 0..NumSingles,
        first \in SingleMenu, second \in SingleMenu, third \in SingleMenu}

InitSingles ==
    /\ hashSeed \in {0, 1}
    /\ subteam_prefs = [s \in Singles |-> <<>>]
    /\ project_prefs \in SinglePrefs
    /\ rows = SortedAsc(DOMAIN subteam_prefs)
    /\ InitOutputs

\* Strategies 1 to 3 have nothing to go through.
NextSingles ==
    \/ Identify
    \/ Classify
    \/ Merge1Done
    \/ Merge2Done
    \/ Merge3Done
    \/ Merge4Round
    \/ Merge4Done
    \/ CollectUnmatched
    \/ AssignComplete
    \/ AssignMerged
    \/ Analyze

SpecSingles == InitSingles /\ [][NextSingles]_vars

\* ---------------------------------------------------------------- C25
\* The indices of the singles that are not used, in list order.
UnusedSingles ==
    LET RECURSIVE From(_)
        From(k) == IF k > Len(incomplete_subteams[1]) THEN <<>>
                   ELSE (IF <<1, k>> \in used THEN <<>> ELSE <<k>>) \o From(k + 1)
    IN  From(1)

\* The singles in the window of n unused singles that starts at place w.
SinglesAt(w, n) == [k \in 1..n |-> incomplete_subteams[1][UnusedSingles[w + k - 1]]]

\* The places at which a window of n unused singles with a common project
\* starts.
Windows(n) ==
    {w \in 1..(Len(UnusedSingles) - n + 1) :
        Common(UNION {SinglesAt(w, n)[k].members : k \in 1..n})}

TakesWindow(w, n) ==
    Forms(SinglesAt(w, n), {<<1, UnusedSingles[w + k - 1]>> : k \in 1..n})

\* C25: in each round of strategy 4, over the unused singles in list order,
\* the first contiguous window of 6 whose members share a project becomes a
\* team of 6; a contiguous window of 5 is taken, the first one, only when no
\* window of 6 of that round is compatible, also when it starts earlier in
\* the list; and rounds repeat while at least 5 unused singles remain and a
\* window was taken.
C25_Strategy4 ==
    [][pc = "merge4" =>
          IF Len(UnusedSingles) >= 5 /\ Windows(6) # {}
          THEN pc' = "merge4" /\ TakesWindow(MinOf(Windows(6)), 6)
          ELSE IF Len(UnusedSingles) >= 5 /\ Windows(5) # {}
          THEN pc' = "merge4" /\ TakesWindow(MinOf(Windows(5)), 5)
          ELSE pc' = "collect" /\ FormsNothing]_vars

\* A second round follows a first one that took a window of 6 although a
\* compatible window of 5 started earlier in the list.
C25_Witness ==
    /\ pc = "merge4"
    /\ Len(formed_teams) = 1
    /\ formed_teams[1].size = 6
    /\ formed_teams[1].source_subteams[1] # incomplete_subteams[1][1]
    /\ Common(UNION {incomplete_subteams[1][k].members : k \in 1..5})
    /\ Len(UnusedSingles) >= 5
    /\ Windows(5) # {}

\* ---------------------------------------------------------------- C26
\* The places in unmatched of the subteams of a size, in list order.
UnmatchedOf(size) ==
    LET RECURSIVE From(_)
        From(k) == IF k > Len(unmatched) THEN <<>>
                   ELSE (IF unmatched[k].size = size THEN <<k>> ELSE <<>>) \o From(k + 1)
    IN  From(1)

\* The subteams at these places of unmatched have a project in common.
CommonAt(places) == Common(UNION {unmatched[k].members : k \in places})

\* C26: what merge returns is maximal for its own strategies.  Among the
\* subteams it returns as unmatched there is no size-4 subteam compatible
\* with a size-2 or a size-1 subteam, there are no two compatible size-3
\* subteams, no size-3 subteam compatible with a size-2 subteam, no three
\* size-2 subteams whose union has a common project, no two size-2 subteams
\* and a size-1 subteam whose union has one, and no contiguous window of 5 or
\* 6 unmatched singles, in list order, with a common project.
C26_MergeMaximal ==
    MergeReturned =>
        LET P(size) == Range(UnmatchedOf(size))
            ones == UnmatchedOf(1)
        IN  /\ \A a \in P(4) : \A b \in P(2) \cup P(1) : ~CommonAt({a, b})
            /\ \A a \in P(3) : \A b \in P(3) \cup P(2) : a # b => ~CommonAt({a, b})
            /\ \A a \in P(2) : \A b \in P(2) : \A c \in P(2) \cup P(1) :
                  (a # b /\ b # c /\ a # c) => ~CommonAt({a, b, c})
            /\ \A n \in {5, 6} : \A w \in 1..(Len(ones) - n + 1) :
                  ~CommonAt({ones[w + k - 1] : k \in 1..n})

\* merge has returned at least five singles as unmatched: every window of
\* them lacks a common project.
C26_Witness ==
    /\ MergeReturned
    /\ Len(UnmatchedOf(1)) >= 5

\* ---------------------------------------------------------------- C27
\* How often a student is in the final output: in the team_members of an
\* assignment or in an unmatched subteam.
TimesPlaced(s) ==
    Cardinality({k \in 1..Len(all_assignments) : s \in Range(all_assignments[k].team_members)})

TimesUnmatched(s) == Cardinality({k \in 1..Len(unmatched) : s \in unmatched[k].members})

\* The totals of the report.
total_placed == SumSeq([k \in 1..Len(all_assignments) |-> Len(all_assignments[k].team_members)])

unmatched_count == SumSeq([k \in 1..Len(unmatched) |-> Cardinality(unmatched[k].members)])

\* C27: when main has completed, every student of the request map is in the
\* final output exactly once, in the team_members of one assignment or in one
\* unmatched subteam, and the placed and the unmatched students together are
\* as many as the students.
C27_EveryStudentOnce ==
    (pc = "done" /\ status = "completed") =>
        /\ \A s \in DOMAIN subteam_prefs : TimesPlaced(s) + TimesUnmatched(s) = 1
        /\ total_placed + unmatched_count = Cardinality(DOMAIN subteam_prefs)

\* ---------------------------------------------------------------- C28
\* C28: no student is in the team_members of two different assignments, and
\* no student is both in an assignment and in an unmatched subteam.
C28_NoStudentTwice ==
    /\ \A a \in 1..Len(all_assignments) : \A b \in 1..Len(all_assignments) :
          a # b => Range(all_assignments[a].team_members)
                       \cap Range(all_assignments[b].team_members) = {}
    /\ \A a \in 1..Len(all_assignments) : \A u \in 1..Len(unmatched) :
          Range(all_assignments[a].team_members) \cap unmatched[u].members = {}

\* A run has completed with an assignment for a team merged from two
\* subteams and with a subteam that stayed unmatched.
C28_Witness ==
    /\ pc = "done"
    /\ status = "completed"
    /\ Len(merged_assignments) = 1
    /\ Len(formed_teams[1].source_subteams) = 2
    /\ unmatched # <<>>

\* ---------------------------------------------------------------- C29
\* C29: in every assignment individual_rankings is aligned with team_members:
\* the ranking at each position is the rank the student at that position of
\* team_members gave the assigned project.
C29_RankingsAligned ==
    \A k \in 1..Len(all_assignments) :
        LET a == all_assignments[k]
        IN  /\ Len(a.individual_rankings) = Len(a.team_members)
            /\ \A n \in 1..Len(a.team_members) :
                  a.individual_rankings[n] = PrefsOf(a.team_members[n])[a.project]

\* ---------------------------------------------------------------- C30
\* The surveys of every family above but those of eight students.
InitLive == Init \/ InitSingles

\* main is a sequential program that runs on until it returns: steps are
\* taken again and again unless pc is "done" for good.  This is WF_vars(Next)
\* with ENABLED <<Next>>_vars written out: every state but those with
\* pc = "done" has a step, and none of them has one.
RunsOn == ([]<><<Next>>_vars) \/ (<>[](pc = "done"))

\* The same for single steps, where TLC can evaluate ENABLED: the end of a for
\* loop that is exhausted is taken.
LoopsEnd == WF_vars(Merge1Done) /\ WF_vars(Merge2Done) /\ WF_vars(Merge3Done)

\* The runs of main that do not stop before main returns.
SpecLive == InitLive /\ [][Next]_vars /\ RunsOn /\ LoopsEnd

\* merge_subteams_into_teams has returned its result to main.
Returned == pc \in {"assign_complete", "assign_merged", "analyze", "done"}

\* C30: merge_subteams_into_teams terminates.  A round of the while loop of
\* strategy 4 either forms a team, and then there are 5 or 6 fewer unused
\* singles, or leaves the loop; and once merge has been entered, unmatched is
\* eventually returned.
C30_MergeTerminates ==
    /\ [][pc = "merge4" =>
            \/ /\ pc' = "merge4"
               /\ Len(formed_teams') = Len(formed_teams) + 1
               /\ Len(UnusedSingles) - Len(UnusedSingles') \in {5, 6}
            \/ /\ pc' = "collect"
               /\ FormsNothing]_vars
    /\ (pc = "merge1") ~> Returned

\* The while loop has been left after two rounds that formed a team each.
C30_Witness ==
    /\ pc = "collect"
    /\ Len(formed_teams) = 2
    /\ \A k \in 1..2 : \A n \in 1..Len(formed_teams[k].source_subteams) :
          formed_teams[k].source_subteams[n].size = 1

====
